---- MODULE Spec2Model ----
(***************************************************************************)
(* A model of e_pub_sorter.py: the Epub pipeline that classifies e-book    *)
(* files, detects duplicates by identifier, optionally edits metadata,     *)
(* renames and groups the files and writes a report.                       *)
(*                                                                         *)
(* Text (file names, titles, author names) is a sequence of fragments: a   *)
(* fragment is one character, or a run of characters holding none of       *)
(* '.', ',', ' ' and '-' (so "x.epub" is <<"x", ".", "epub">>).            *)
(* A directory is the sequence of its components from the working root     *)
(* (Path() is <<>>); a file path is [parent |-> directory, name |-> text]. *)
(* The file system is `files` (path -> physical file) and `folders`.       *)
(* File-system calls follow POSIX: rename replaces an existing target and  *)
(* renaming a path onto itself does nothing.                               *)
(***************************************************************************)
EXTENDS Integers, Sequences, FiniteSets, TLC

VARIABLES
    files,            \* the disk: [path -> physical file], for the paths that exist
    folders,          \* the disk: the directories that exist
    args,             \* the parsed command line (update, update_author,
                      \* update_title and rename_file, with --update-all folded in)
    epub_list,        \* Epub.epub_list
    data,             \* Epub.data, the catalog
    identifier_list,  \* Epub.identifier_list
    duplicate_list,   \* the local duplicate_list: indexes into data (references)
    metadata,         \* the local `metadata` of extract_metadata
    file_list,        \* the paths a stage's loop iterates over
    idx,              \* how many iterations of the running loop are done
    csv,              \* the rows written to csv_output
    pc,               \* the stage main() is in
    exc,              \* the exception that ended the process, if any
    run               \* how many times the program was started on the tree

vars == <<files, folders, args, epub_list, data, identifier_list,
          duplicate_list, metadata, file_list, idx, csv, pc, exc, run>>

---------------------------------------------------------------------------
(* Bounds of the model. *)

\* The number of epub files in the tree the program is started on.
MaxFiles == 3

\* How many times the program is run over the same tree.
MaxRuns == 2

---------------------------------------------------------------------------
(* Text and paths. *)

\* str.replace(old, new) for a one-character old.
Replace(s, old, new) == [k \in 1..Len(s) |-> IF s[k] = old THEN new ELSE s[k]]

\* .replace(",", "_").replace(" ", "_")
Sanitize(s) == Replace(Replace(s, ",", "_"), " ", "_")

\* sep.join(list)
RECURSIVE Join(_, _)
Join(sep, list) ==
    IF list = <<>> THEN <<>>
    ELSE IF Len(list) = 1 THEN list[1]
    ELSE list[1] \o <<sep>> \o Join(sep, Tail(list))

\* PurePath.suffix: the name from its last '.', unless that is its first or
\* last character.
Suffix(name) ==
    LET dots == {k \in 1..Len(name) : name[k] = "."}
    IN  IF dots = {} THEN <<>>
        ELSE LET j == CHOOSE k \in dots : \A l \in dots : l <= k
             IN  IF 1 < j /\ j < Len(name) THEN SubSeq(name, j, Len(name))
                 ELSE <<>>

\* The names rglob("*.epub") matches.
IsEpubName(name) ==
    /\ Len(name) >= 2
    /\ SubSeq(name, Len(name) - 1, Len(name)) = <<".", "epub">>

\* folder / name
Div(folder, name) == [parent |-> folder, name |-> name]

\* folder / name, as a directory; a path joined with "" is the path itself.
SubFolder(folder, name) == IF name = <<>> THEN folder ELSE Append(folder, name)

IsPrefix(s, t) == Len(s) <= Len(t) /\ SubSeq(t, 1, Len(s)) = s

duplicate_folder == << <<"[duplicates]">> >>
failed_folder == << <<"[failed]">> >>
processed_folder == << <<"[processed]">> >>

ManagedFolders == {duplicate_folder, failed_folder, processed_folder}

---------------------------------------------------------------------------
(* The file system. *)

\* Path.rename(target): the file at source now is at target, replacing what
\* was there.  Only called when CanRename.
Rename(fs, source, target) ==
    [p \in (DOMAIN fs \ {source}) \cup {target} |->
        IF p = target THEN fs[source] ELSE fs[p]]

\* rename raises FileNotFoundError without the source or the target's folder.
CanRename(fs, dirs, source, target) ==
    source \in DOMAIN fs /\ target.parent \in dirs

\* folder.rglob("*.epub"), as a set.
EpubsUnder(fs, folder) ==
    {p \in DOMAIN fs : IsPrefix(folder, p.parent) /\ IsEpubName(p.name)}

\* The orders in which rglob may list the files of set S: a directory's own
\* files come together and before those of its subdirectories, a subtree's
\* files come together; the order among siblings is the file system's.
RglobOrders(S) ==
    LET n == Cardinality(S)
    IN  {s \in [1..n -> S] :
            /\ \A a, b \in 1..n : a # b => s[a] # s[b]
            /\ \A a, b \in 1..n :
                 a < b => ~(s[b].parent # s[a].parent
                            /\ IsPrefix(s[b].parent, s[a].parent))
            /\ \A a, b, c \in 1..n :
                 (a < b /\ b < c) =>
                    \A k \in 0..Len(s[a].parent) :
                        (IsPrefix(SubSeq(s[a].parent, 1, k), s[c].parent)
                            => IsPrefix(SubSeq(s[a].parent, 1, k), s[b].parent))}

---------------------------------------------------------------------------
(* The inputs: the tree the program is started on. *)

TitleA == <<"M", "y", ",", " ", "B", "k">>
TitleB == <<"Z", "e", "d">>
AuthorA == <<"A", " ", "B">>
AuthorC == <<"C">>

\* What ebookmeta.get_metadata returns for a readable file.
Book(identifier, title, author_list) ==
    [bound |-> TRUE, identifier |-> identifier, title |-> title,
     author_list |-> author_list]

Books ==
    { Book("id1", TitleA, <<AuthorA>>),
      Book("id1", TitleB, <<AuthorC>>),
      Book("id2", TitleB, <<AuthorA, AuthorC>>) }

\* The content of a file ebookmeta cannot read.
Corrupt == [bound |-> FALSE]

\* The name `metadata` before its first assignment.
Unbound == [bound |-> FALSE]

DirA == << <<"a">> >>
DirAS == << <<"a">>, <<"s">> >>

InputFolders == {DirA, DirAS}

InputPaths ==
    { Div(DirA, <<"x", ".", "epub">>),
      Div(DirA, <<"y", ".", "epub">>),
      Div(DirAS, <<"x", ".", "epub">>),
      Div(DirAS, <<"y", ".", "epub">>) }

\* The trees: at most MaxFiles files, each readable (a book) or not.
InputTrees ==
    UNION { [S -> Books \cup {Corrupt}]
            : S \in {T \in SUBSET InputPaths : Cardinality(T) <= MaxFiles} }

---------------------------------------------------------------------------
(* The catalog and the operations on it, as functions of the state they    *)
(* read and write.                                                         *)

\* A physical file: what it holds, and (for the properties only) the path it
\* was found at, which tells one physical file from another.
File(origin, content) == [origin |-> origin, content |-> content]

\* One dict of Epub.data.  `origin` is not in the code: it records the file
\* the entry was created for.
Entry(is_duplicate, is_failed, md, path, origin) ==
    [is_duplicate |-> is_duplicate, is_failed |-> is_failed,
     metadata |-> md, path |-> path, origin |-> origin]

\* metadata=None, path=None
NoMetadata == [bound |-> FALSE]
NoPath == [parent |-> <<>>, name |-> <<>>]

\* ebookmeta.get_metadata(path) returns when the file is there and readable.
CanRead(fs, path) == path \in DOMAIN fs /\ fs[path].content.bound

\* if epub.is_file() and epub.parent not in [duplicate_folder, failed_folder,
\* processed_folder]
IsCandidate(fs, epub) == epub \in DOMAIN fs /\ epub.parent \notin ManagedFolders

\* One iteration of the loop of extract_metadata.
\* st = [files, data, identifier_list, metadata, exc].
ExtractOne(st, epub) ==
    IF ~IsCandidate(st.files, epub) THEN st
    ELSE IF ~CanRead(st.files, epub)
    THEN \* except: the file goes to [failed]; `metadata` is whatever an
         \* earlier iteration left in it, or raises UnboundLocalError
         LET path == Div(failed_folder, epub.name)
             moved == Rename(st.files, epub, path)
         IN  IF ~st.metadata.bound
             THEN [st EXCEPT !.files = moved, !.exc = "UnboundLocalError"]
             ELSE [st EXCEPT
                     !.files = moved,
                     !.data = Append(@, Entry(FALSE, TRUE, st.metadata, path,
                                              st.files[epub].origin))]
    ELSE \* else: the file goes to [processed]
         LET md == st.files[epub].content
             path == Div(processed_folder, epub.name)
         IN  [st EXCEPT
                 !.metadata = md,
                 !.identifier_list = Append(@, md.identifier),
                 !.files = Rename(st.files, epub, path),
                 !.data = Append(@, Entry(FALSE, FALSE, md, path,
                                          st.files[epub].origin))]

\* self.identifier_list.count(identifier)
Count(list, x) == Cardinality({k \in 1..Len(list) : list[k] = x})

\* if self.identifier_list.count(identifier) > 1
IsDuplicated(list, identifier) == Count(list, identifier) > 1

\* [epub for epub in self.data if epub["metadata"].identifier == identifier],
\* as indexes into data
RECURSIVE Matching(_, _, _)
Matching(catalog, identifier, from) ==
    IF from > Len(catalog) THEN <<>>
    ELSE (IF catalog[from].metadata.identifier = identifier
          THEN <<from>> ELSE <<>>) \o Matching(catalog, identifier, from + 1)

\* The first loop of find_duplicate_by_identifier: duplicate_list.
RECURSIVE DuplicateList(_, _, _)
DuplicateList(catalog, list, from) ==
    IF from > Len(list) THEN <<>>
    ELSE (IF IsDuplicated(list, list[from])
          THEN Matching(catalog, list[from], 1) ELSE <<>>)
         \o DuplicateList(catalog, list, from + 1)

\* One iteration of the second loop of find_duplicate_by_identifier, on the
\* entry data[d].  st = [files, folders, data, exc].
MoveOne(st, d) ==
    LET source == st.data[d].path
        path == Div(duplicate_folder, source.name)
        flagged == [st.data EXCEPT ![d].is_duplicate = TRUE]
    IN  IF ~CanRename(st.files, st.folders, source, path)
        THEN [st EXCEPT !.data = flagged, !.exc = "FileNotFoundError"]
        ELSE [st EXCEPT
                !.files = Rename(st.files, source, path),
                !.data = [flagged EXCEPT ![d].path = path]]

\* ebookmeta.set_metadata(path, md) fails on a file that is not there or that
\* cannot be read, and whenever the disk refuses the write.
CanWrite(fs, path) == CanRead(fs, path)

\* update_data, from entry `from` on.  st = [files, data, exc].  failing is
\* the number, among the set_metadata calls still to come, of the one the
\* disk refuses (0: none).
RECURSIVE UpdateDataFrom(_, _, _, _, _, _)
UpdateDataFrom(st, from, identifier, md, path, failing) ==
    IF from > Len(st.data) THEN st
    ELSE IF st.data[from].metadata.identifier # identifier
    THEN UpdateDataFrom(st, from + 1, identifier, md, path, failing)
    ELSE LET at == st.data[from].path
             written == md.bound
             refused == written /\ (failing = 1 \/ ~CanWrite(st.files, at))
             st1 == IF written
                    THEN [st EXCEPT
                            !.files = [@ EXCEPT ![at].content = md],
                            !.data = [@ EXCEPT ![from].metadata = md]]
                    ELSE st
             st2 == IF path # NoPath
                    THEN [st1 EXCEPT !.data = [@ EXCEPT ![from].path = path]]
                    ELSE st1
         IN  IF refused THEN [st EXCEPT !.exc = "set_metadata"]
             ELSE UpdateDataFrom(st2, from + 1, identifier, md, path,
                                 IF written /\ failing > 0
                                 THEN failing - 1 ELSE failing)

update_data(st, identifier, md, path, failing) ==
    UpdateDataFrom(st, 1, identifier, md, path, failing)

\* A faulty target for rename_file: the whole name of the file is kept after
\* the title, not only its suffix.
RenameTarget_KeepsName(title, name) ==
    Div(processed_folder, Sanitize(title) \o <<".">> \o name)

\* The target of rename_file for a file named `name` with title `title`:
\* processed_folder / f"{title.replace(',','_').replace(' ','_')}.{epub.suffix}"
RenameTarget(title, name) ==
    Div(processed_folder, Sanitize(title) \o <<".">> \o Suffix(name))

\* author_group's folder for an author list.
AuthorFolder(author_list) ==
    SubFolder(processed_folder, Sanitize(Join("-", author_list)))

\* One iteration of rename_file's loop, on file epub, which can be read.
RenameOne(fs, epub) ==
    Rename(fs, epub, RenameTarget(fs[epub].content.title, epub.name))

\* rename_file on the files of `list`, in that order.  st = [files, exc].
RECURSIVE RenameAll(_, _, _)
RenameAll(st, list, from) ==
    IF from > Len(list) \/ st.exc # "none" THEN st
    ELSE IF ~CanRead(st.files, list[from])
    THEN [st EXCEPT !.exc = "get_metadata"]
    ELSE RenameAll([st EXCEPT !.files = RenameOne(@, list[from])],
                   list, from + 1)

\* One iteration of author_group's loop, on file epub, which can be read.
\* st = [files, folders, data, exc].
GroupOne(st, epub) ==
    LET md == st.files[epub].content
        author_folder == AuthorFolder(md.author_list)
        path == Div(author_folder, epub.name)
        moved == Rename(st.files, epub, path)
        new == update_data([files |-> moved, data |-> st.data, exc |-> "none"],
                           md.identifier, NoMetadata, path, 0)
    IN  [files |-> new.files, folders |-> st.folders \cup {author_folder},
         data |-> new.data, exc |-> st.exc]

\* author_group on the files of `list`, in that order.
RECURSIVE GroupAll(_, _, _)
GroupAll(st, list, from) ==
    IF from > Len(list) \/ st.exc # "none" THEN st
    ELSE IF ~CanRead(st.files, list[from])
    THEN [st EXCEPT !.exc = "get_metadata"]
    ELSE GroupAll(GroupOne(st, list[from]), list, from + 1)

\* _find_empty_folders: the directories with no entry at all.
EmptyFolders(fs, dirs) ==
    {d \in dirs :
        /\ \A p \in DOMAIN fs : p.parent # d
        /\ \A e \in dirs : ~(Len(e) = Len(d) + 1 /\ IsPrefix(d, e))}

\* A faulty report row: the flags are those the entry was appended with, so
\* is_duplicate is always False.
Row_FlagsAsAppended(entry) ==
    [author |-> entry.metadata.author_list,
     identifier |-> entry.metadata.identifier,
     is_duplicate |-> FALSE,
     is_failed |-> entry.is_failed,
     path |-> entry.path,
     title |-> entry.metadata.title]

\* One row of the report per entry.  The author column is the library's
\* rendering of the author list, kept here as the list.
Row(entry) ==
    [author |-> entry.metadata.author_list,
     identifier |-> entry.metadata.identifier,
     is_duplicate |-> entry.is_duplicate,
     is_failed |-> entry.is_failed,
     path |-> entry.path,
     title |-> entry.metadata.title]

---------------------------------------------------------------------------
(* main(): the stages in order. *)

LoopStages == {"update_authors", "update_title", "rename_file", "author_group"}

\* if args.update or args.update_author: ... (main's sequence after a stage)
AfterTitle == IF args.rename_file THEN "rename_file" ELSE "author_group"
AfterAuthors == IF args.update_title THEN "update_title" ELSE AfterTitle
AfterFind == IF args.update_author THEN "update_authors" ELSE AfterAuthors

\* Control reaches `stage` with the disk as fs: a stage that loops over
\* get_processed_epub() lists it on entry, and with nothing under [processed]
\* every such loop is empty and control runs on to generate_csv.
Enter(stage, fs) ==
    LET found == EpubsUnder(fs, processed_folder)
        looping == stage \in LoopStages /\ found # {}
    IN  /\ pc' = IF stage \in LoopStages /\ found = {} THEN "generate_csv"
                 ELSE stage
        /\ file_list' \in (IF looping THEN RglobOrders(found) ELSE {<<>>})
        /\ idx' = 0

\* An exception nobody catches ends the process.
Raise(e) ==
    /\ pc' = "crashed"
    /\ exc' = e
    /\ UNCHANGED <<file_list, idx>>

\* The directories a tree needs: every ancestor of a file's folder.
FoldersOf(paths) ==
    UNION {{SubSeq(p.parent, 1, k) : k \in 1..Len(p.parent)} : p \in paths}

\* The state once Epub() is constructed (__post_init__) on some tree, with
\* some command line, for the first time.
Init ==
    /\ \E tree \in InputTrees :
        /\ files = [p \in DOMAIN tree |-> File(p, tree[p])]
        /\ folders = FoldersOf(DOMAIN tree) \cup ManagedFolders
    /\ args \in [update_author : BOOLEAN, update_title : BOOLEAN,
                 rename_file : BOOLEAN]
    /\ epub_list = <<>>
    /\ data = <<>>
    /\ identifier_list = <<>>
    /\ duplicate_list = <<>>
    /\ metadata = Unbound
    /\ file_list = <<>>
    /\ idx = 0
    /\ csv = <<>>
    /\ pc = "detect_epubs"
    /\ exc = "none"
    /\ run = 1

\* detect_epubs, and main's `if instance.epub_list:`.
DetectEpubs ==
    /\ pc = "detect_epubs"
    /\ epub_list' \in RglobOrders(EpubsUnder(files, <<>>))
    /\ pc' = IF epub_list' = <<>> THEN "done" ELSE "extract_metadata"
    /\ idx' = 0
    /\ UNCHANGED <<files, folders, args, data, identifier_list, duplicate_list,
                   metadata, file_list, csv, exc, run>>

\* extract_metadata: one iteration of its loop; after the last one main goes
\* on to find_duplicate_by_identifier.
ExtractMetadata ==
    /\ pc = "extract_metadata"
    /\ idx < Len(epub_list)
    /\ LET st == ExtractOne([files |-> files, data |-> data,
                             identifier_list |-> identifier_list,
                             metadata |-> metadata, exc |-> "none"],
                            epub_list[idx + 1])
       IN  /\ files' = st.files
           /\ data' = st.data
           /\ identifier_list' = st.identifier_list
           /\ metadata' = st.metadata
           /\ IF st.exc # "none" THEN Raise(st.exc)
              ELSE /\ idx' = idx + 1
                   /\ pc' = IF idx + 1 = Len(epub_list)
                            THEN "find_duplicate_by_identifier" ELSE pc
                   /\ UNCHANGED <<file_list, exc>>
    /\ UNCHANGED <<folders, args, epub_list, duplicate_list, csv, run>>

\* find_duplicate_by_identifier, its first loop: the list of the duplicates.
FindDuplicates ==
    /\ pc = "find_duplicate_by_identifier"
    /\ duplicate_list' = DuplicateList(data, identifier_list, 1)
    /\ IF duplicate_list' # <<>>
       THEN pc' = "move_duplicates" /\ idx' = 0 /\ UNCHANGED file_list
       ELSE Enter(AfterFind, files)
    /\ UNCHANGED <<files, folders, args, epub_list, data, identifier_list,
                   metadata, csv, exc, run>>

\* find_duplicate_by_identifier, one iteration of its second loop.
MoveDuplicate ==
    /\ pc = "move_duplicates"
    /\ idx < Len(duplicate_list)
    /\ LET st == MoveOne([files |-> files, folders |-> folders, data |-> data,
                          exc |-> "none"], duplicate_list[idx + 1])
       IN  /\ files' = st.files
           /\ data' = st.data
           /\ IF st.exc # "none" THEN Raise(st.exc)
              ELSE IF idx + 1 = Len(duplicate_list)
              THEN Enter(AfterFind, st.files) /\ UNCHANGED exc
              ELSE idx' = idx + 1 /\ UNCHANGED <<pc, file_list, exc>>
    /\ UNCHANGED <<folders, args, epub_list, identifier_list, duplicate_list,
                   metadata, csv, run>>

\* What the operator may type at "new value: ".
EditedAuthorLists == {<<AuthorC>>}
EditedTitles == {TitleA}

\* The end of one iteration of a stage's loop over file_list; after the last
\* one main goes on to stage `next`, with the disk as fs.
Iterated(next, fs) ==
    IF idx + 1 = Len(file_list) THEN Enter(next, fs)
    ELSE idx' = idx + 1 /\ UNCHANGED <<pc, file_list>>

\* metadata.set_author_list_from_string(name), with the list the string holds
SetAuthorList(md, author_list) == [md EXCEPT !.author_list = author_list]

\* metadata.title = title
SetTitle(md, title) == [md EXCEPT !.title = title]

\* The metadata a stage passes to update_data after the operator's edit.
Edit(md, field, value) ==
    IF field = "title" THEN SetTitle(md, value) ELSE SetAuthorList(md, value)

\* One iteration of update_authors or update_title on file_list[idx + 1]:
\* the operator declines, or types a value that update_data writes to every
\* entry with the file's identifier.  field is the metadata field the stage
\* edits.
Curate(field, values, next) ==
    LET epub == file_list[idx + 1]
    IN  IF ~CanRead(files, epub)
        THEN Raise("get_metadata") /\ UNCHANGED <<files, data>>
        ELSE \E change \in BOOLEAN :
             IF ~change
             THEN Iterated(next, files) /\ UNCHANGED <<files, data, exc>>
             ELSE \E value \in values :
                  LET md == Edit(files[epub].content, field, value)
                      calls == Len(Matching(data, md.identifier, 1))
                  IN  \E failing \in 0..calls :
                      LET st == update_data([files |-> files, data |-> data,
                                             exc |-> "none"],
                                            md.identifier, md, NoPath, failing)
                      IN  /\ files' = st.files
                          /\ data' = st.data
                          /\ IF st.exc # "none" THEN Raise(st.exc)
                             ELSE Iterated(next, st.files) /\ UNCHANGED exc

UpdateAuthors ==
    /\ pc = "update_authors"
    /\ Curate("author_list", EditedAuthorLists, AfterAuthors)
    /\ UNCHANGED <<folders, args, epub_list, identifier_list, duplicate_list,
                   metadata, csv, run>>

UpdateTitle ==
    /\ pc = "update_title"
    /\ Curate("title", EditedTitles, AfterTitle)
    /\ UNCHANGED <<folders, args, epub_list, identifier_list, duplicate_list,
                   metadata, csv, run>>

\* rename_file: one iteration of its loop.  The catalog is not touched.
RenameFile ==
    /\ pc = "rename_file"
    /\ LET epub == file_list[idx + 1]
       IN  IF ~CanRead(files, epub)
           THEN Raise("get_metadata") /\ UNCHANGED files
           ELSE /\ files' = RenameOne(files, epub)
                /\ Iterated("author_group", files')
                /\ UNCHANGED exc
    /\ UNCHANGED <<folders, args, epub_list, data, identifier_list,
                   duplicate_list, metadata, csv, run>>

\* author_group: one iteration of its loop.
AuthorGroup ==
    /\ pc = "author_group"
    /\ LET epub == file_list[idx + 1]
       IN  IF ~CanRead(files, epub)
           THEN Raise("get_metadata") /\ UNCHANGED <<files, folders, data>>
           ELSE LET st == GroupOne([files |-> files, folders |-> folders,
                                     data |-> data, exc |-> "none"], epub)
                IN  /\ folders' = st.folders
                    /\ files' = st.files
                    /\ data' = st.data
                    /\ Iterated("generate_csv", st.files)
                    /\ UNCHANGED exc
    /\ UNCHANGED <<args, epub_list, identifier_list, duplicate_list, metadata,
                   csv, run>>

\* generate_csv: one row per entry of data, in its order.
GenerateCsv ==
    /\ pc = "generate_csv"
    /\ csv' = [k \in 1..Len(data) |-> Row(data[k])]
    /\ pc' = "remove_empty_folder"
    /\ UNCHANGED <<files, folders, args, epub_list, data, identifier_list,
                   duplicate_list, metadata, file_list, idx, exc, run>>

\* remove_empty_folder: every folder _find_empty_folders listed is removed.
RemoveEmptyFolder ==
    /\ pc = "remove_empty_folder"
    /\ folders' = folders \ EmptyFolders(files, folders)
    /\ pc' = "get_summary"
    /\ UNCHANGED <<files, args, epub_list, data, identifier_list,
                   duplicate_list, metadata, file_list, idx, csv, exc, run>>

\* get_summary: processed_folder.iterdir() raises when the folder is gone.
GetSummary ==
    /\ pc = "get_summary"
    /\ IF processed_folder \in folders
       THEN pc' = "done" /\ UNCHANGED <<file_list, idx, exc>>
       ELSE Raise("FileNotFoundError")
    /\ UNCHANGED <<files, folders, args, epub_list, data, identifier_list,
                   duplicate_list, metadata, csv, run>>

\* The program is started again over the tree the last run left, with the
\* same command line: Epub() makes a new, empty catalog and __post_init__
\* makes the three managed folders.
Restart ==
    /\ pc = "done"
    /\ run < MaxRuns
    /\ run' = run + 1
    /\ folders' = folders \cup ManagedFolders
    /\ epub_list' = <<>>
    /\ data' = <<>>
    /\ identifier_list' = <<>>
    /\ duplicate_list' = <<>>
    /\ metadata' = Unbound
    /\ file_list' = <<>>
    /\ idx' = 0
    /\ pc' = "detect_epubs"
    /\ UNCHANGED <<files, args, csv, exc>>

Next ==
    \/ Restart
    \/ DetectEpubs
    \/ ExtractMetadata
    \/ FindDuplicates
    \/ MoveDuplicate
    \/ UpdateAuthors
    \/ UpdateTitle
    \/ RenameFile
    \/ AuthorGroup
    \/ GenerateCsv
    \/ RemoveEmptyFolder
    \/ GetSummary

Spec == Init /\ [][Next]_vars

---------------------------------------------------------------------------
(* Vocabulary of the properties. *)

\* The paths at which the physical file first found at `origin` now is.
WhereIs(fs, origin) == {p \in DOMAIN fs : fs[p].origin = origin}

\* The entry's path holds the very file the entry was created for.
HasItsFile(fs, entry) ==
    entry.path \in DOMAIN fs /\ fs[entry.path].origin = entry.origin

\* The folder an entry's flags imply.
FolderOfState(entry) ==
    IF entry.is_failed THEN failed_folder
    ELSE IF entry.is_duplicate THEN duplicate_folder
    ELSE processed_folder

\* main() is inside find_duplicate_by_identifier.
InFind == pc \in {"find_duplicate_by_identifier", "move_duplicates"}

\* This step is the one find_duplicate_by_identifier returns with.
FindReturns == InFind /\ pc' \notin {"find_duplicate_by_identifier",
                                     "move_duplicates", "crashed"}

\* A stage has just completed, or main() is between or after its stages: no
\* loop is part-way through and nothing was raised.
StageCompleted ==
    /\ pc # "crashed"
    /\ \/ idx = 0
       \/ pc \notin LoopStages \cup {"extract_metadata", "move_duplicates"}

\* The entries (indexes) of a catalog with identifier id.
WithIdentifier(catalog, id) ==
    {d \in 1..Len(catalog) : catalog[d].metadata.identifier = id}

---------------------------------------------------------------------------
(* The claims. *)

\* C1 (duplicate completeness): when find_duplicate_by_identifier returns,
\* for every identifier that occurs k > 1 times in identifier_list exactly k
\* entries with that identifier have is_duplicate = True, each of them has
\* its path and its file in [duplicates], and no entry with that identifier
\* has a path under [processed].
C1_DuplicateCompleteness ==
    [][FindReturns =>
        \A id \in {identifier_list[k] : k \in 1..Len(identifier_list)} :
            Count(identifier_list, id) > 1 =>
                LET same == WithIdentifier(data', id)
                    marked == {d \in same : data'[d].is_duplicate}
                IN  /\ Cardinality(marked) = Count(identifier_list, id)
                    /\ \A d \in marked :
                        /\ data'[d].path.parent = duplicate_folder
                        /\ HasItsFile(files', data'[d])
                    /\ \A d \in same :
                        ~IsPrefix(processed_folder, data'[d].path.parent)]_vars

\* C2 (no identifier bleed): no step of find_duplicate_by_identifier changes
\* an entry whose identifier occurs exactly once in identifier_list (its
\* flag and its path stay), nor moves that entry's file.
C2_NoIdentifierBleed ==
    [][InFind =>
        \A d \in 1..Len(data) :
            (~data[d].is_failed
             /\ Count(identifier_list, data[d].metadata.identifier) = 1) =>
                /\ data'[d] = data[d]
                /\ WhereIs(files', data[d].origin)
                     = WhereIs(files, data[d].origin)]_vars

\* extract_metadata then find_duplicate_by_identifier on the files of `list`
\* in that order, from the disk fs: the catalog when they return or raise.
RECURSIVE ExtractAll(_, _, _)
ExtractAll(st, list, from) ==
    IF from > Len(list) \/ st.exc # "none" THEN st
    ELSE ExtractAll(ExtractOne(st, list[from]), list, from + 1)

RECURSIVE MoveAll(_, _, _)
MoveAll(st, list, from) ==
    IF from > Len(list) \/ st.exc # "none" THEN st
    ELSE MoveAll(MoveOne(st, list[from]), list, from + 1)

Classified(fs, dirs, list) ==
    LET read == ExtractAll([files |-> fs, data |-> <<>>,
                            identifier_list |-> <<>>, metadata |-> Unbound,
                            exc |-> "none"], list, 1)
    IN  IF read.exc # "none" THEN read.data
        ELSE MoveAll([files |-> read.files, folders |-> dirs,
                      data |-> read.data, exc |-> "none"],
                     DuplicateList(read.data, read.identifier_list, 1), 1).data

\* The files a catalog marks with is_duplicate = flag.
Marked(catalog, flag) ==
    {catalog[d].origin : d \in {e \in 1..Len(catalog) :
                                  catalog[e].is_duplicate = flag}}

\* C3 (order independence): whatever order detect_epubs lists the files of a
\* tree in, extract_metadata followed by find_duplicate_by_identifier marks
\* the same files as duplicates and the same files as not duplicates.
C3_OrderIndependent ==
    (pc = "extract_metadata" /\ idx = 0) =>
        \A other \in RglobOrders(EpubsUnder(files, <<>>)) :
            /\ Marked(Classified(files, folders, other), TRUE)
                 = Marked(Classified(files, folders, epub_list), TRUE)
            /\ Marked(Classified(files, folders, other), FALSE)
                 = Marked(Classified(files, folders, epub_list), FALSE)

\* C4 (path/state consistency): after each stage completes, every entry's
\* path lies under the folder its flags imply: [failed] when is_failed,
\* [duplicates] when is_duplicate, [processed] otherwise.
C4_PathMatchesState ==
    StageCompleted =>
        \A d \in 1..Len(data) :
            IsPrefix(FolderOfState(data[d]), data[d].path.parent)

\* C5 (catalog location matches the disk): after each stage completes,
\* rename_file included, every entry's path is that of a file that exists
\* and is the file the entry was created for.
C5_LocationOnDisk ==
    StageCompleted => \A d \in 1..Len(data) : HasItsFile(files, data[d])

\* Every epub file sits under one of the three managed folders.
AllManaged(fs) ==
    \A p \in EpubsUnder(fs, <<>>) :
        \E m \in ManagedFolders : IsPrefix(m, p.parent)

\* C6 (idempotence of discovery): run over a tree whose epub files all sit
\* under [duplicates], [failed] or [processed] (its per-author subfolders
\* included), extract_metadata moves no file and appends no entry.
C6_DiscoveryIdempotent ==
    [][(pc = "extract_metadata" /\ AllManaged(files)) =>
            (files' = files /\ data' = data)]_vars

\* C7 (failed classification): for a discovered file whose metadata cannot
\* be read, extract_metadata moves the file to [failed] and appends exactly
\* one entry, for that file, with is_failed = True and no identifier and no
\* title (so none of another file).
C7_FailedClassification ==
    [][(/\ pc = "extract_metadata"
        /\ IsCandidate(files, epub_list[idx + 1])
        /\ ~CanRead(files, epub_list[idx + 1])) =>
            LET epub == epub_list[idx + 1]
            IN  /\ WhereIs(files', files[epub].origin)
                     = {Div(failed_folder, epub.name)}
                /\ Len(data') = Len(data) + 1
                /\ data'[Len(data')].origin = files[epub].origin
                /\ data'[Len(data')].is_failed
                /\ ~data'[Len(data')].metadata.bound]_vars

\* C8 (a decode error is never fatal): wherever the unreadable file stands
\* in epub_list, the iteration of extract_metadata on it raises nothing, so
\* that the loop goes on to the other files and main to the next stages.
C8_DecodeErrorNotFatal ==
    [][(/\ pc = "extract_metadata"
        /\ IsCandidate(files, epub_list[idx + 1])
        /\ ~CanRead(files, epub_list[idx + 1])) => pc' # "crashed"]_vars

\* C9 (independent duplicate moves): when the move of one duplicate to
\* [duplicates] cannot be done, find_duplicate_by_identifier raises nothing:
\* it goes on to the remaining duplicates and main to the next stages.
C9_IndependentMoves ==
    [][(/\ pc = "move_duplicates"
        /\ LET source == data[duplicate_list[idx + 1]].path
           IN  ~CanRename(files, folders, source,
                          Div(duplicate_folder, source.name))) =>
            pc' # "crashed"]_vars

\* C10 (edit rejection on write failure): when set_metadata fails in
\* update_data during an author or a title edit, every entry keeps the
\* metadata it had before the edit.
C10_EditRejected ==
    [][(pc \in {"update_authors", "update_title"} /\ exc' = "set_metadata") =>
            \A d \in 1..Len(data) : data'[d].metadata = data[d].metadata]_vars

\* C11 (empty-folder cleanup is complete): when remove_empty_folder returns,
\* no directory under the working root is left with zero entries, a parent
\* that its removed children left empty included.  The three managed folders
\* are not counted.
C11_CleanupComplete ==
    [][pc = "remove_empty_folder" =>
            EmptyFolders(files', folders') \subseteq ManagedFolders]_vars

\* C13 (rename sanitization): rename_file moves a file named x.epub whose
\* title is t to [processed]/<t with ',' and ' ' replaced by '_'><suffix>,
\* the suffix being that of the file, unchanged (".epub").
C13_RenameSanitized ==
    [][(pc = "rename_file" /\ CanRead(files, file_list[idx + 1])) =>
            LET epub == file_list[idx + 1]
                title == files[epub].content.title
            IN  WhereIs(files', files[epub].origin)
                    = {Div(processed_folder,
                           Sanitize(title) \o Suffix(epub.name))}]_vars

\* C17 (classification states are mutually exclusive): no entry is both
\* failed and duplicate, and no step of find_duplicate_by_identifier changes
\* an entry with is_failed = True or moves its file.
C17_FailedNeverDuplicate ==
    [][/\ \A d \in 1..Len(data') :
            ~(data'[d].is_failed /\ data'[d].is_duplicate)
       /\ InFind =>
            \A d \in 1..Len(data) :
                data[d].is_failed =>
                    /\ data'[d] = data[d]
                    /\ WhereIs(files', data[d].origin)
                         = WhereIs(files, data[d].origin)]_vars

\* C19 (managed folders survive cleanup): [duplicates], [failed] and
\* [processed] still exist when remove_empty_folder returns.
C19_ManagedFoldersSurvive ==
    [][pc = "remove_empty_folder" => ManagedFolders \subseteq folders']_vars

\* main() is past generate_csv and has not failed since.
Reported == pc \in {"remove_empty_folder", "get_summary", "done"}

\* C12 (report completeness): the report has one row per catalog entry, row
\* k being that of entry k with the entry's final is_duplicate and is_failed;
\* and the entries are in discovery order: extract_metadata only ever appends
\* the entry of the file of epub_list it is at, and no stage of a run
\* removes or reorders entries.
C12_ReportComplete ==
    /\ [](Reported =>
            /\ Len(csv) = Len(data)
            /\ \A k \in 1..Len(data) :
                /\ csv[k].is_duplicate = data[k].is_duplicate
                /\ csv[k].is_failed = data[k].is_failed
                /\ csv[k].path = data[k].path
                /\ csv[k].identifier = data[k].metadata.identifier
                /\ csv[k].title = data[k].metadata.title)
    /\ [][/\ pc = "extract_metadata" =>
                \/ data' = data
                \/ /\ Len(data') = Len(data) + 1
                   /\ data'[Len(data')].origin
                        = files[epub_list[idx + 1]].origin
          /\ pc # "done" =>
                /\ Len(data') >= Len(data)
                /\ \A d \in 1..Len(data) : data'[d].origin = data[d].origin]_vars

\* The report is written for a catalog with a failed and a duplicate entry.
C12_Witness ==
    /\ Reported
    /\ Len(csv) >= 2
    /\ \E k \in 1..Len(csv) : csv[k].is_duplicate
    /\ \E k \in 1..Len(csv) : csv[k].is_failed

\* author_group has returned.
Grouped == pc = "generate_csv" \/ Reported

\* C14 (group by author): after author_group every file under [processed]
\* is at [processed]/<A>/<its name>, <A> being its author list joined with
\* '-' with ',' and ' ' replaced by '_'; that path is recorded in the file's
\* own entry and in no other entry; and every entry that is neither failed
\* nor duplicate has its file at its path.
C14_GroupedByAuthor ==
    Grouped =>
        /\ \A p \in EpubsUnder(files, processed_folder) :
            /\ CanRead(files, p)
            /\ p.parent = AuthorFolder(files[p].content.author_list)
            /\ \E d \in 1..Len(data) :
                /\ data[d].path = p
                /\ data[d].origin = files[p].origin
                /\ \A e \in 1..Len(data) : data[e].path = p => e = d
        /\ \A d \in 1..Len(data) :
            (~data[d].is_failed /\ ~data[d].is_duplicate) =>
                HasItsFile(files, data[d])

\* C16 (each duplicate is relocated exactly once): in the move loop of
\* find_duplicate_by_identifier, the first visit of an entry moves its file
\* from [processed] to [duplicates] and moves no other file; every later
\* visit of the same entry leaves the file system and the catalog as they
\* are.
C16_RelocatedOnce ==
    [][pc = "move_duplicates" =>
        LET d == duplicate_list[idx + 1]
            visited == \E k \in 1..idx : duplicate_list[k] = d
            target == Div(duplicate_folder, data[d].path.name)
        IN  IF visited
            THEN files' = files /\ data' = data
            ELSE /\ data[d].path.parent = processed_folder
                 /\ WhereIs(files, data[d].origin) = {data[d].path}
                 /\ WhereIs(files', data[d].origin) = {target}
                 /\ \A p \in DOMAIN files :
                        files[p].origin # data[d].origin => WhereIs(files', files[p].origin) = {p}
                 /\ data'[d].path = target]_vars

\* The files the catalog was made from have pairwise distinct names and,
\* those that could be read, pairwise distinct sanitized titles.
DistinctNamesAndTitles ==
    \A d, e \in 1..Len(data) :
        d # e =>
            /\ data[d].origin.name # data[e].origin.name
            /\ (~data[d].is_failed /\ ~data[e].is_failed) =>
                    Sanitize(data[d].metadata.title)
                        # Sanitize(data[e].metadata.title)

\* C18 (locations are injective): in a run over a tree whose files have
\* pairwise distinct names and pairwise distinct sanitized titles, after
\* extract_metadata and after every later stage no two entries record the
\* same path, and there are as many epub files on disk as entries.
C18_LocationsInjective ==
    (/\ run = 1
     /\ StageCompleted
     /\ pc \notin {"detect_epubs", "extract_metadata"}
     /\ DistinctNamesAndTitles) =>
        /\ \A d, e \in 1..Len(data) :
                data[d].path = data[e].path => d = e
        /\ Cardinality(EpubsUnder(files, <<>>)) = Len(data)

\* rename_file has just returned.
Renamed == args.rename_file /\ pc = "author_group" /\ idx = 0

\* C15 (organizer idempotence): run again right after it returned, on the
\* files then under [processed] in whatever order they are listed,
\* rename_file leaves the file system as it is, and author_group leaves the
\* file system, the folders and the catalog as they are; neither raises.
C15_OrganizerIdempotent ==
    /\ Renamed =>
        \A again \in RglobOrders(EpubsUnder(files, processed_folder)) :
            RenameAll([files |-> files, exc |-> "none"], again, 1)
                = [files |-> files, exc |-> "none"]
    /\ pc = "generate_csv" =>
        \A again \in RglobOrders(EpubsUnder(files, processed_folder)) :
            LET st == [files |-> files, folders |-> folders, data |-> data,
                       exc |-> "none"]
            IN  GroupAll(st, again, 1) = st

\* rename_file then author_group have run and moved a file: it is under a
\* subfolder of [processed], under another name than it was found with.
C15_Witness ==
    /\ pc = "generate_csv"
    /\ args.rename_file
    /\ \E p \in EpubsUnder(files, processed_folder) :
        /\ Len(p.parent) = 2
        /\ p.name # files[p].origin.name

====
